---- MODULE Spec2Model ----
(***************************************************************************)
(* redux-hyper-action: a model of src/src/index.ts.                        *)
(*                                                                         *)
(* JavaScript values are tagged records.  A plain object is an ordered     *)
(* list of <<key, value>> pairs with distinct keys (insertion order, as    *)
(* Object.keys reports it); an own key whose value is undefined is a key.  *)
(* The library functions are operators computed as the code computes them; *)
(* a call that throws yields Throw(..), a call that returns yields Ret(..).*)
(***************************************************************************)
EXTENDS Integers, Sequences, FiniteSets, TLC

VARIABLES
    now,      \* the clock new Date() reads, in milliseconds
    rnd,      \* the number of identifiers drawn from uuid v4 so far
    action,   \* the value the caller holds and passes as the action
    origin,   \* where that value came from, and what it was when obtained
    call,     \* the last call: its name, arguments, action argument, time, outcome
    log       \* the identifier and factory calls of a caller that keeps every result

vars == <<now, rnd, action, origin, call, log>>

(***************************************************************************)
(* Bounds of the model.                                                    *)
(***************************************************************************)
MaxTime == 1
MaxCalls == 2

(***************************************************************************)
(* JavaScript values.                                                      *)
(***************************************************************************)
Undefined == [t |-> "undefined"]
Null == [t |-> "null"]
Func == [t |-> "function"]
Regex == [t |-> "regexp"]
Str(s) == [t |-> "string", s |-> s]
Num(n) == [t |-> "number", n |-> n]
Bool(b) == [t |-> "boolean", b |-> b]
Obj(kvs) == [t |-> "object", kvs |-> kvs]
Arr(items) == [t |-> "array", items |-> items]
Err(m) == [t |-> "error", m |-> m]
Instance(c) == [t |-> "instance", c |-> c]

TypeOf(v) ==
    CASE v.t = "undefined" -> "undefined"
      [] v.t = "string" -> "string"
      [] v.t = "number" -> "number"
      [] v.t = "boolean" -> "boolean"
      [] v.t = "function" -> "function"
      [] OTHER -> "object"

\* Object.prototype.toString.call(v)
ObjectToString(v) ==
    CASE v.t = "undefined" -> "[object Undefined]"
      [] v.t = "null" -> "[object Null]"
      [] v.t = "string" -> "[object String]"
      [] v.t = "number" -> "[object Number]"
      [] v.t = "boolean" -> "[object Boolean]"
      [] v.t = "function" -> "[object Function]"
      [] v.t = "regexp" -> "[object RegExp]"
      [] v.t = "array" -> "[object Array]"
      [] v.t = "error" -> "[object Error]"
      [] OTHER -> "[object Object]"

\* v instanceof Error
InstanceOfError(v) == v.t = "error"

\* Object.keys(o): the own enumerable keys in insertion order
Keys(o) == [i \in 1..Len(o.kvs) |-> o.kvs[i][1]]

KeySet(o) == {o.kvs[i][1] : i \in 1..Len(o.kvs)}

HasOwn(o, k) == \E i \in 1..Len(o.kvs) : o.kvs[i][1] = k

\* the properties every plain object inherits from Object.prototype
ObjectPrototypeKeys ==
    {"constructor", "__defineGetter__", "__defineSetter__", "hasOwnProperty",
     "__lookupGetter__", "__lookupSetter__", "isPrototypeOf",
     "propertyIsEnumerable", "toString", "valueOf", "__proto__", "toLocaleString"}

\* k in o, for a plain object o
In(k, o) == HasOwn(o, k) \/ k \in ObjectPrototypeKeys

\* o.k for a data key k: undefined when o has no such own key
Get(o, k) ==
    IF HasOwn(o, k)
    THEN o.kvs[CHOOSE i \in 1..Len(o.kvs) : o.kvs[i][1] = k][2]
    ELSE Undefined

\* {...o, k: v}: an existing key keeps its position, a new key is appended
Set(o, k, v) ==
    IF HasOwn(o, k)
    THEN Obj([i \in 1..Len(o.kvs) |->
                 IF o.kvs[i][1] = k THEN <<k, v>> ELSE o.kvs[i]])
    ELSE Obj(Append(o.kvs, <<k, v>>))

\* the object without key k (what a caller's omit() builds)
Omit(o, k) == Obj(SelectSeq(o.kvs, LAMBDA kv : kv[1] # k))

\* o1.id === o2.pid and the like: strict equality of two values.  Objects,
\* arrays and errors are compared by reference; the model keeps no
\* references, and the fields compared here hold primitives.
StrictEquals(a, b) == a = b

\* !!v
Truthy(v) ==
    CASE v.t = "undefined" -> FALSE
      [] v.t = "null" -> FALSE
      [] v.t = "boolean" -> v.b
      [] v.t = "number" -> v.n # 0
      [] v.t = "string" -> v.s # ""
      [] OTHER -> TRUE

Ret(v) == [thrown |-> FALSE, val |-> v]
Throw(m) == [thrown |-> TRUE, val |-> Err(m)]

(***************************************************************************)
(* The libraries index.ts imports.                                         *)
(***************************************************************************)

\* o.constructor of a value whose toString tag is [object Object]: Object
\* for an object literal, the class for a class instance
Constructor(v) == IF v.t = "instance" THEN v.c ELSE "Object"

\* is-plain-object: the tag must be [object Object] and the constructor's
\* prototype must own isPrototypeOf, which only Object.prototype does
isPlainObject(o) ==
    IF ObjectToString(o) # "[object Object]" THEN FALSE
    ELSE IF Constructor(o) # "Object" THEN FALSE
    ELSE TRUE

\* the object keys the model uses, in UTF-16 code unit order (the order of
\* Array.prototype.sort without a comparator)
KeyOrder == <<"a", "b", "c">>

\* a serializer that lists the keys in insertion order, as JSON.stringify does
SortedKeys_InsertionOrder(o) == Keys(o)

\* Object.keys(node).sort()
SortedKeys(o) == SelectSeq(KeyOrder, LAMBDA k : k \in KeySet(o))

\* JSON.stringify of a string without characters that need an escape
Quote(s) == "\"" \o s \o "\""

\* '' + n for an integer n
NumberToString(n) == ToString(n)

RECURSIVE stringifyItems(_, _)
RECURSIVE stringifyMembers(_, _, _)
RECURSIVE stringify(_)

\* fast-json-stable-stringify: a JS string, or undefined
stringify(node) ==
    CASE node.t = "undefined" -> Undefined
      [] node.t = "number" -> Str(NumberToString(node.n))
      [] node.t = "string" -> Str(Quote(node.s))
      [] node.t = "boolean" -> Str(IF node.b THEN "true" ELSE "false")
      [] node.t = "function" -> Undefined
      [] node.t = "array" -> Str("[" \o stringifyItems(node.items, 1) \o "]")
      [] node.t = "null" -> Str("null")
      [] node.t = "object" ->
            Str("{" \o stringifyMembers(node, SortedKeys(node), "") \o "}")
      [] OTHER -> Str("{}")   \* an Error, a RegExp, a class instance without own enumerable keys

\* the loop over an array: out += stringify(node[i]) || 'null'
stringifyItems(items, i) ==
    IF i > Len(items) THEN ""
    ELSE LET r == stringify(items[i])
             one == IF Truthy(r) THEN r.s ELSE "null"
         IN  (IF i > 1 THEN "," ELSE "") \o one \o stringifyItems(items, i + 1)

\* the loop over the sorted keys: a key whose value has no serialization is skipped
stringifyMembers(node, keys, out) ==
    IF keys = <<>> THEN out
    ELSE LET key == Head(keys)
             value == stringify(Get(node, key))
         IN  IF ~Truthy(value) THEN stringifyMembers(node, Tail(keys), out)
             ELSE stringifyMembers(node, Tail(keys),
                     out \o (IF out # "" THEN "," ELSE "")
                         \o Quote(key) \o ":" \o value.s)

\* uuid v5: the name-based identifier of (name, namespace), a function of both
\* and injective in the name
uuidv5(name, namespace) == "uuid5(" \o namespace \o ")(" \o name \o ")"

\* uuid v4: the r-th draw of the random source; no two draws agree
uuidv4(r) == "uuid4#" \o ToString(r)

\* Date.prototype.toISOString of the time t, in milliseconds since the epoch
toISOString(t) ==
    "1970-01-01T00:00:00."
        \o (IF t < 10 THEN "00" ELSE IF t < 100 THEN "0" ELSE "")
        \o ToString(t) \o "Z"

(***************************************************************************)
(* src/src/index.ts                                                        *)
(***************************************************************************)
SIGN == "redux-hyper-action"

UUID_NULL == "00000000-0000-0000-0000-000000000000"

UUID_NAMESPACE == uuidv5(SIGN, UUID_NULL)

PHASE_STARTED == "started"
PHASE_RUNNING == "running"
PHASE_FINISH == "finish"

\* the key lists, which the code reads only through every and includes
ActionProperties == {"type", "payload", "error", "meta"}
ActionRequiredProperties == {"type", "error", "meta"}

MetaProperties ==
    {"sign", "id", "pid", "phase", "progress", "ctime", "utime", "async", "uniq"}
MetaRequiredProperties == {"sign", "id", "ctime", "async", "uniq"}

RECURSIVE JSONStringifyItems(_, _)
RECURSIVE JSONStringifyMembers(_, _, _)
RECURSIVE JSONStringify(_)

\* JSON.stringify: a JS string, or undefined; the keys of a record are listed
\* in insertion order
JSONStringify(node) ==
    CASE node.t = "undefined" -> Undefined
      [] node.t = "function" -> Undefined
      [] node.t = "number" -> Str(NumberToString(node.n))
      [] node.t = "string" -> Str(Quote(node.s))
      [] node.t = "boolean" -> Str(IF node.b THEN "true" ELSE "false")
      [] node.t = "null" -> Str("null")
      [] node.t = "array" -> Str("[" \o JSONStringifyItems(node.items, 1) \o "]")
      [] node.t = "object" ->
            Str("{" \o JSONStringifyMembers(node, Keys(node), "") \o "}")
      [] OTHER -> Str("{}")   \* an Error, a RegExp, a class instance without own enumerable keys

\* an array element without a serialization is written as null
JSONStringifyItems(items, i) ==
    IF i > Len(items) THEN ""
    ELSE LET r == JSONStringify(items[i])
             one == IF r = Undefined THEN "null" ELSE r.s
         IN  (IF i > 1 THEN "," ELSE "") \o one \o JSONStringifyItems(items, i + 1)

\* a key whose value has no serialization is skipped
JSONStringifyMembers(node, keys, out) ==
    IF keys = <<>> THEN out
    ELSE LET key == Head(keys)
             value == JSONStringify(Get(node, key))
         IN  IF value = Undefined THEN JSONStringifyMembers(node, Tail(keys), out)
             ELSE JSONStringifyMembers(node, Tail(keys),
                     out \o (IF out # "" THEN "," ELSE "")
                         \o Quote(key) \o ":" \o value.s)

\* ${v} in a template literal, for v a string or undefined
Interpolate(v) == IF v = Undefined THEN "undefined" ELSE v.s

invalidAction(a) ==
    "Invalid Action. " \o Interpolate(JSONStringify(a)) \o "! <redux-saga-mate>"

invalidAsyncAction(a) ==
    "Invalid Async Action. " \o Interpolate(JSONStringify(a)) \o "! <redux-saga-mate>"

\* the record {parent, child}
ParentChild(p, child) == Obj(<< <<"parent", p>>, <<"child", child>> >>)

\* a validator that does not look for unknown meta keys
isValidAction_NoMetaKeyCheck(a) ==
    IF ~isPlainObject(a) THEN FALSE
    ELSE IF ~(\A k \in ActionRequiredProperties : In(k, a)) THEN FALSE
    ELSE IF ~(\A k \in KeySet(a) : k \in ActionProperties) THEN FALSE
    ELSE IF TypeOf(Get(a, "type")) # "string" THEN FALSE
    ELSE LET meta == Get(a, "meta")
         IN  IF ~isPlainObject(meta) THEN FALSE
             ELSE IF ~(\A k \in MetaRequiredProperties : In(k, meta)) THEN FALSE
             ELSE StrictEquals(Get(meta, "sign"), Str(SIGN))

isValidAction(a) ==
    IF ~isPlainObject(a) THEN FALSE
    ELSE IF ~(\A k \in ActionRequiredProperties : In(k, a)) THEN FALSE
    ELSE IF ~(\A k \in KeySet(a) : k \in ActionProperties) THEN FALSE
    ELSE IF TypeOf(Get(a, "type")) # "string" THEN FALSE
    ELSE LET meta == Get(a, "meta")
         IN  IF ~isPlainObject(meta) THEN FALSE
             ELSE IF ~(\A k \in MetaRequiredProperties : In(k, meta)) THEN FALSE
             ELSE IF ~(\A k \in KeySet(meta) : k \in MetaProperties) THEN FALSE
             ELSE StrictEquals(Get(meta, "sign"), Str(SIGN))

\* the identifier and the number of draws taken from the random source
createActionId(type, payload, uniq, r) ==
    IF uniq
    THEN [val |-> Str(uuidv4(r)), rnd |-> r + 1]
    ELSE [val |-> Str(uuidv5(stringify(Arr(<<Str(type), payload>>)).s, UUID_NAMESPACE)),
          rnd |-> r]

\* option?.k
OptionalGet(option, k) ==
    IF option.t \in {"undefined", "null"} THEN Undefined ELSE Get(option, k)

\* a factory that copies the options without converting them to booleans
createAction_RawOptions(type, payload, option, clock, r) ==
    LET async == Truthy(OptionalGet(option, "async"))
        uniq == Truthy(OptionalGet(option, "uniq"))
        id == IF async THEN createActionId(type, payload, uniq, r)
                       ELSE createActionId(type, payload, FALSE, r)
        meta == IF async
                THEN Obj(<< <<"sign", Str(SIGN)>>,
                            <<"id", id.val>>,
                            <<"pid", Undefined>>,
                            <<"phase", Str(PHASE_STARTED)>>,
                            <<"progress", Num(0)>>,
                            <<"ctime", Str(toISOString(clock))>>,
                            <<"utime", Undefined>>,
                            <<"async", OptionalGet(option, "async")>>,
                            <<"uniq", OptionalGet(option, "uniq")>> >>)
                ELSE Obj(<< <<"sign", Str(SIGN)>>,
                            <<"id", id.val>>,
                            <<"pid", Undefined>>,
                            <<"ctime", Str(toISOString(clock))>>,
                            <<"async", OptionalGet(option, "async")>>,
                            <<"uniq", OptionalGet(option, "uniq")>> >>)
    IN  [val |-> Obj(<< <<"type", Str(type)>>,
                        <<"payload", payload>>,
                        <<"error", Bool(InstanceOfError(payload))>>,
                        <<"meta", meta>> >>),
         rnd |-> id.rnd]

createAction(type, payload, option, clock, r) ==
    LET async == Truthy(OptionalGet(option, "async"))
        uniq == Truthy(OptionalGet(option, "uniq"))
        id == IF async THEN createActionId(type, payload, uniq, r)
                       ELSE createActionId(type, payload, FALSE, r)
        meta == IF async
                THEN Obj(<< <<"sign", Str(SIGN)>>,
                            <<"id", id.val>>,
                            <<"pid", Undefined>>,
                            <<"phase", Str(PHASE_STARTED)>>,
                            <<"progress", Num(0)>>,
                            <<"ctime", Str(toISOString(clock))>>,
                            <<"utime", Undefined>>,
                            <<"async", Bool(async)>>,
                            <<"uniq", Bool(uniq)>> >>)
                ELSE Obj(<< <<"sign", Str(SIGN)>>,
                            <<"id", id.val>>,
                            <<"pid", Undefined>>,
                            <<"ctime", Str(toISOString(clock))>>,
                            <<"async", Bool(async)>>,
                            <<"uniq", Bool(uniq)>> >>)
    IN  [val |-> Obj(<< <<"type", Str(type)>>,
                        <<"payload", payload>>,
                        <<"error", Bool(InstanceOfError(payload))>>,
                        <<"meta", meta>> >>),
         rnd |-> id.rnd]

createAsyncAction(type, payload, clock, r) ==
    createAction(type, payload,
                 Obj(<< <<"async", Bool(TRUE)>>, <<"uniq", Bool(FALSE)>> >>), clock, r)

createAsyncUniqueAction(type, payload, clock, r) ==
    createAction(type, payload,
                 Obj(<< <<"async", Bool(TRUE)>>, <<"uniq", Bool(TRUE)>> >>), clock, r)

idOfAction(a) ==
    IF ~isValidAction(a) THEN Throw(invalidAction(a))
    ELSE Ret(Get(Get(a, "meta"), "id"))

pidOfAction(a) ==
    IF ~isValidAction(a) THEN Throw(invalidAction(a))
    ELSE Ret(Get(Get(a, "meta"), "pid"))

isAsync(a) ==
    IF ~isValidAction(a) THEN Throw(invalidAction(a))
    ELSE Ret(Get(Get(a, "meta"), "async"))

isUnique(a) ==
    IF ~isValidAction(a) THEN Throw(invalidAction(a))
    ELSE Ret(Get(Get(a, "meta"), "uniq"))

\* a guard that answers false for an action that is not async instead of throwing
AsyncGuard_ReturnsFalse(a, body) ==
    LET r == isAsync(a)
    IN  IF r.thrown THEN r
        ELSE IF ~Truthy(r.val) THEN Ret(Bool(FALSE))
        ELSE Ret(body)

\* if (!isAsync(action)) throw ...: an exception of isAsync propagates
AsyncGuard(a, body) ==
    LET r == isAsync(a)
    IN  IF r.thrown THEN r
        ELSE IF ~Truthy(r.val) THEN Throw(invalidAsyncAction(a))
        ELSE Ret(body)

isStarted(a) ==
    AsyncGuard(a, Bool(StrictEquals(Get(Get(a, "meta"), "phase"), Str(PHASE_STARTED))))

isRunning(a) ==
    AsyncGuard(a, Bool(StrictEquals(Get(Get(a, "meta"), "phase"), Str(PHASE_RUNNING))))

isFinished(a) ==
    AsyncGuard(a, Bool(StrictEquals(Get(Get(a, "meta"), "phase"), Str(PHASE_FINISH))))

\* a transition that refreshes ctime along with utime
continueWith_RefreshesCtime(payload, progress, a, clock) ==
    LET r == isAsync(a)
    IN  IF r.thrown THEN r
        ELSE IF ~Truthy(r.val) THEN Throw(invalidAsyncAction(a))
        ELSE Ret(Set(Set(a, "payload", payload), "meta",
                     Set(Set(Set(Set(Get(a, "meta"),
                                     "phase", Str(PHASE_RUNNING)),
                                 "progress", IF progress = Undefined THEN Num(0) ELSE progress),
                             "ctime", Str(toISOString(clock))),
                         "utime", Str(toISOString(clock)))))

\* a transition that builds the meta anew instead of copying it
continueWith_DropsMeta(payload, progress, a, clock) ==
    AsyncGuard(a,
        Set(Set(a, "payload", payload), "meta",
            Obj(<< <<"phase", Str(PHASE_RUNNING)>>,
                   <<"progress", IF progress = Undefined THEN Num(0) ELSE progress>>,
                   <<"utime", Str(toISOString(clock))>> >>)))

\* progress = 0: the default applies to an omitted (undefined) argument
continueWith(payload, progress, a, clock) ==
    AsyncGuard(a,
        Set(Set(a, "payload", payload), "meta",
            Set(Set(Set(Get(a, "meta"),
                        "phase", Str(PHASE_RUNNING)),
                    "progress", IF progress = Undefined THEN Num(0) ELSE progress),
                "utime", Str(toISOString(clock)))))

\* a transition to success that leaves the progress as it was
succeedWith_KeepsProgress(payload, a, clock) ==
    AsyncGuard(a,
        Set(Set(a, "payload", payload), "meta",
            Set(Set(Get(a, "meta"),
                    "phase", Str(PHASE_FINISH)),
                "utime", Str(toISOString(clock)))))

\* a transition to success that leaves the phase as it was
succeedWith_KeepsPhase(payload, a, clock) ==
    AsyncGuard(a,
        Set(Set(a, "payload", payload), "meta",
            Set(Set(Get(a, "meta"),
                    "progress", Num(100)),
                "utime", Str(toISOString(clock)))))

succeedWith(payload, a, clock) ==
    AsyncGuard(a,
        Set(Set(a, "payload", payload), "meta",
            Set(Set(Set(Get(a, "meta"),
                        "phase", Str(PHASE_FINISH)),
                    "progress", Num(100)),
                "utime", Str(toISOString(clock)))))

\* a failure that clears the pid
failWith_ClearsPid(error, a, clock) ==
    AsyncGuard(a,
        Set(Set(Set(a, "payload", error), "error", Bool(TRUE)), "meta",
            Set(Set(Set(Set(Get(a, "meta"),
                            "pid", Undefined),
                        "phase", Str(PHASE_FINISH)),
                    "progress", Num(100)),
                "utime", Str(toISOString(clock)))))

\* a failure that leaves utime as it was
failWith_KeepsUtime(error, a, clock) ==
    AsyncGuard(a,
        Set(Set(Set(a, "payload", error), "error", Bool(TRUE)), "meta",
            Set(Set(Get(a, "meta"),
                    "phase", Str(PHASE_FINISH)),
                "progress", Num(100))))

failWith(error, a, clock) ==
    AsyncGuard(a,
        Set(Set(Set(a, "payload", error), "error", Bool(TRUE)), "meta",
            Set(Set(Set(Get(a, "meta"),
                        "phase", Str(PHASE_FINISH)),
                    "progress", Num(100)),
                "utime", Str(toISOString(clock)))))

\* a lineage function that takes the pid of the parent for its id
makeChildOf_PidOfParent(p, child, clock) ==
    IF ~isValidAction(p) \/ ~isValidAction(child)
    THEN Throw(invalidAction(ParentChild(p, child)))
    ELSE LET pid == pidOfAction(p)
         IN  IF pid.thrown THEN pid
             ELSE Ret(Set(child, "meta",
                          Set(Set(Get(child, "meta"), "pid", pid.val),
                              "utime", Str(toISOString(clock)))))

makeChildOf(p, child, clock) ==
    IF ~isValidAction(p) \/ ~isValidAction(child)
    THEN Throw(invalidAction(ParentChild(p, child)))
    ELSE LET pid == idOfAction(p)
         IN  IF pid.thrown THEN pid
             ELSE Ret(Set(child, "meta",
                          Set(Set(Get(child, "meta"), "pid", pid.val),
                              "utime", Str(toISOString(clock)))))

\* a test that compares the two ids
isChildOf_ComparesIds(p, child) ==
    IF ~isValidAction(p) \/ ~isValidAction(child)
    THEN Throw(invalidAction(ParentChild(p, child)))
    ELSE Ret(Bool(StrictEquals(Get(Get(p, "meta"), "id"),
                               Get(Get(child, "meta"), "id"))))

\* a test that validates the child only
isChildOf_ChildOnly(p, child) ==
    IF ~isValidAction(child) THEN Throw(invalidAction(ParentChild(p, child)))
    ELSE Ret(Bool(StrictEquals(Get(Get(p, "meta"), "id"),
                               Get(Get(child, "meta"), "pid"))))

isChildOf(p, child) ==
    IF ~isValidAction(p) \/ ~isValidAction(child)
    THEN Throw(invalidAction(ParentChild(p, child)))
    ELSE Ret(Bool(StrictEquals(Get(Get(p, "meta"), "id"),
                               Get(Get(child, "meta"), "pid"))))

(***************************************************************************)
(* The values a caller passes.                                             *)
(***************************************************************************)
Types == {"t", "u"}

Payloads == {Undefined, Str("p"), Err("e")}

PlainPayloads == {Str("q")}

Errors == {Err("e")}

Options ==
    {Undefined,
     Obj(<<>>),
     Obj(<< <<"async", Bool(TRUE)>> >>),
     Obj(<< <<"uniq", Bool(TRUE)>> >>),
     Obj(<< <<"async", Bool(TRUE)>>, <<"uniq", Bool(TRUE)>> >>)}

ProgressArgs == {Undefined, Num(50), Num(101)}

\* the hand-written action of the test suite (describe('isValidAction'))
validAction ==
    Obj(<< <<"type", Str("t")>>,
           <<"payload", Str("p")>>,
           <<"error", Bool(FALSE)>>,
           <<"meta", Obj(<< <<"sign", Str(SIGN)>>,
                            <<"id", Str("xxxxxxxx-xxxx-xxxx-xxxx-xxxxxxxxxxxx")>>,
                            <<"pid", Str("yyyyyyyy-yyyy-yyyy-yyyy-yyyyyyyyyyyy")>>,
                            <<"phase", Str("started")>>,
                            <<"progress", Num(0)>>,
                            <<"ctime", Num(0)>>,
                            <<"utime", Num(0)>>,
                            <<"async", Bool(TRUE)>>,
                            <<"uniq", Bool(TRUE)>> >>)>> >>)

\* assocPath(['meta', k], v, a)
SetMeta(a, k, v) == Set(a, "meta", Set(Get(a, "meta"), k, v))

\* a with meta.k omitted
OmitMeta(a, k) == Set(a, "meta", Omit(Get(a, "meta"), k))

\* the values that are no plain object (the test suite's list)
NonRecords ==
    {Str("string"), Num(1), Bool(TRUE), Undefined, Null, Arr(<<>>), Func,
     Instance("Foo"), Regex}

\* hand-written values a caller may hold
HandBuilt ==
    {Null,
     Instance("Foo"),
     validAction,
     Set(validAction, "foo", Str("bar")),
     SetMeta(validAction, "async", Bool(FALSE)),
     OmitMeta(OmitMeta(validAction, "phase"), "progress")}

\* the values a caller passes as the parent: two actions of the factory and
\* a value that is no action
Parents ==
    {createAction("t", Undefined, Undefined, 0, 0).val,
     createAsyncAction("u", Str("p"), 0, 0).val,
     Set(validAction, "foo", Str("bar"))}

\* a record that has a meta record
HasMeta(v) == v.t = "object" /\ Get(v, "meta").t = "object"

\* what the caller remembers of a value obtained from src
Obtained(src, v) ==
    [src |-> src,
     type |-> IF v.t = "object" THEN Get(v, "type") ELSE Undefined,
     id |-> IF HasMeta(v) THEN Get(Get(v, "meta"), "id") ELSE Undefined,
     ctime |-> IF HasMeta(v) THEN Get(Get(v, "meta"), "ctime") ELSE Undefined]

Nothing == Obtained("none", Undefined)

NoCall == [op |-> "none", args |-> <<>>, in |-> Undefined, at |-> 0, out |-> Ret(Undefined)]

(***************************************************************************)
(* Spec: a caller obtains one value, from a factory or hand-written, and   *)
(* passes it through the library, keeping each returned action.            *)
(***************************************************************************)
Init ==
    /\ now = 0
    /\ rnd = 0
    /\ action = Undefined
    /\ origin = Nothing
    /\ call = NoCall
    /\ log = <<>>

\* time passes
Tick ==
    /\ now < MaxTime
    /\ now' = now + 1
    /\ UNCHANGED <<rnd, action, origin, call, log>>

\* the caller, holding nothing yet, takes a hand-written value as the action
Supply(v) ==
    /\ origin.src = "none"
    /\ action' = v
    /\ origin' = Obtained("caller", v)
    /\ call' = NoCall
    /\ UNCHANGED <<now, rnd, log>>

\* a call of a factory by a caller holding nothing yet, who keeps the result
\* g as the action
Made(op, args, g) ==
    /\ origin.src = "none"
    /\ rnd' = g.rnd
    /\ action' = g.val
    /\ origin' = Obtained("factory", g.val)
    /\ call' = [op |-> op, args |-> args, in |-> Undefined, at |-> now, out |-> Ret(g.val)]
    /\ UNCHANGED <<now, log>>

CreateAction(type, payload, option) ==
    Made("createAction", <<Str(type), payload, option>>,
         createAction(type, payload, option, now, rnd))

CreateAsyncAction(type, payload) ==
    Made("createAsyncAction", <<Str(type), payload>>,
         createAsyncAction(type, payload, now, rnd))

CreateAsyncUniqueAction(type, payload) ==
    Made("createAsyncUniqueAction", <<Str(type), payload>>,
         createAsyncUniqueAction(type, payload, now, rnd))

\* a call that inspects the action and changes nothing
Query(op, args, out) ==
    /\ call' = [op |-> op, args |-> args, in |-> action, at |-> now, out |-> out]
    /\ UNCHANGED <<now, rnd, action, origin, log>>

IsValidAction == Query("isValidAction", <<>>, Ret(Bool(isValidAction(action))))
IdOfAction == Query("idOfAction", <<>>, idOfAction(action))
PidOfAction == Query("pidOfAction", <<>>, pidOfAction(action))
IsAsync == Query("isAsync", <<>>, isAsync(action))
IsUnique == Query("isUnique", <<>>, isUnique(action))
IsStarted == Query("isStarted", <<>>, isStarted(action))
IsRunning == Query("isRunning", <<>>, isRunning(action))
IsFinished == Query("isFinished", <<>>, isFinished(action))
IsChildOf(p) == Query("isChildOf", <<p>>, isChildOf(p, action))

\* a call that returns a new action, which the caller keeps in place of the
\* one passed; a call that throws leaves the caller with the old one
Transition(op, args, out) ==
    /\ call' = [op |-> op, args |-> args, in |-> action, at |-> now, out |-> out]
    /\ action' = IF out.thrown THEN action ELSE out.val
    /\ UNCHANGED <<now, rnd, origin, log>>

ContinueWith(payload, progress) ==
    Transition("continueWith", <<payload, progress>>,
               continueWith(payload, progress, action, now))

SucceedWith(payload) ==
    Transition("succeedWith", <<payload>>, succeedWith(payload, action, now))

FailWith(error) ==
    Transition("failWith", <<error>>, failWith(error, action, now))

MakeChildOf(p) ==
    Transition("makeChildOf", <<p>>, makeChildOf(p, action, now))

Next ==
    \/ Tick
    \/ \E v \in HandBuilt : Supply(v)
    \/ \E type \in Types, payload \in Payloads, option \in Options :
          CreateAction(type, payload, option)
    \/ \E type \in Types, payload \in Payloads : CreateAsyncAction(type, payload)
    \/ \E type \in Types, payload \in Payloads : CreateAsyncUniqueAction(type, payload)
    \/ IsValidAction
    \/ IdOfAction
    \/ PidOfAction
    \/ IsAsync
    \/ IsUnique
    \/ IsStarted
    \/ IsRunning
    \/ IsFinished
    \/ \E p \in Parents : IsChildOf(p)
    \/ \E payload \in PlainPayloads, progress \in ProgressArgs :
          ContinueWith(payload, progress)
    \/ \E payload \in PlainPayloads : SucceedWith(payload)
    \/ \E error \in Errors : FailWith(error)
    \/ \E p \in Parents : MakeChildOf(p)

Spec == Init /\ [][Next]_vars

(***************************************************************************)
(* SpecValidate: the library applied to an arbitrary value.  The value is  *)
(* one of the test suite's non-records, or an action (hand-written or of   *)
(* the factory) with one key removed, added or replaced.                   *)
(***************************************************************************)
Bases ==
    {validAction,
     createAction("t", Str("p"), Undefined, 0, 0).val,
     createAsyncAction("t", Str("p"), 0, 0).val}

NonStrings ==
    {Num(1), Bool(TRUE), Undefined, Null, Arr(<<>>), Func, Instance("Foo"), Regex}

Mutations(a) ==
    {Omit(a, k) : k \in ActionProperties}
        \cup {Set(a, "foo", Str("bar")), Set(a, "error", Null)}
        \cup {Set(a, "type", v) : v \in NonStrings}
        \cup {Set(a, "meta", v) : v \in NonRecords}
        \cup {OmitMeta(a, k) : k \in MetaProperties}
        \cup {SetMeta(a, "foo", Str("bar")),
              SetMeta(a, "sign", Str("x")),
              SetMeta(a, "sign", Undefined),
              SetMeta(a, "async", Bool(FALSE)),
              SetMeta(a, "async", Bool(TRUE)),
              SetMeta(a, "phase", Str(PHASE_STARTED)),
              SetMeta(a, "progress", Num(0))}

Candidates == NonRecords \cup Bases \cup UNION {Mutations(a) : a \in Bases}

InitValidate ==
    /\ now = 0
    /\ rnd = 0
    /\ action \in Candidates
    /\ origin = Obtained("caller", action)
    /\ call = NoCall
    /\ log = <<>>

NextValidate ==
    \/ IsValidAction
    \/ IdOfAction
    \/ PidOfAction
    \/ IsAsync
    \/ IsUnique
    \/ IsStarted
    \/ IsRunning
    \/ IsFinished
    \/ \E p \in Parents : IsChildOf(p)
    \/ \E payload \in PlainPayloads, progress \in ProgressArgs :
          ContinueWith(payload, progress)
    \/ \E payload \in PlainPayloads : SucceedWith(payload)
    \/ \E error \in Errors : FailWith(error)
    \/ \E p \in Parents : MakeChildOf(p)

SpecValidate == InitValidate /\ [][NextValidate]_vars

(***************************************************************************)
(* SpecIdentity: a caller calls createActionId and createAction several    *)
(* times and keeps every result.                                           *)
(***************************************************************************)
IdPayloads ==
    {Undefined, Null, Str("p"), Str("q"), Num(1),
     Obj(<<>>),
     Obj(<< <<"a", Undefined>> >>),
     Obj(<< <<"a", Num(1)>>, <<"b", Num(2)>> >>),
     Obj(<< <<"b", Num(2)>>, <<"a", Num(1)>> >>),
     Arr(<<Num(1)>>)}

IdOptions ==
    {Undefined,
     Obj(<< <<"async", Bool(TRUE)>> >>),
     Obj(<< <<"uniq", Bool(TRUE)>> >>),
     Obj(<< <<"async", Bool(TRUE)>>, <<"uniq", Bool(TRUE)>> >>)}

Logged(op, args, out) ==
    /\ Len(log) < MaxCalls
    /\ log' = Append(log, [op |-> op, args |-> args, out |-> out.val])
    /\ rnd' = out.rnd
    /\ UNCHANGED <<now, action, origin, call>>

CallCreateActionId(type, payload, uniq) ==
    Logged("createActionId", <<Str(type), payload, Bool(uniq)>>,
           createActionId(type, payload, uniq, rnd))

CallCreateAction(type, payload, option) ==
    Logged("createAction", <<Str(type), payload, option>>,
           createAction(type, payload, option, now, rnd))

NextIdentity ==
    \/ \E type \in Types, payload \in IdPayloads, uniq \in BOOLEAN :
          CallCreateActionId(type, payload, uniq)
    \/ \E type \in Types, payload \in Payloads, option \in IdOptions :
          CallCreateAction(type, payload, option)

SpecIdentity == Init /\ [][NextIdentity]_vars

(***************************************************************************)
(* SpecLineage: a caller obtains one action, makes it the child of parent  *)
(* actions, passes it through the lifecycle and tests its lineage, keeping *)
(* a note of the last makeChildOf call that returned.                      *)
(***************************************************************************)
\* the values a caller passes as the parent: two actions that createAction
\* returned for the same arguments, with uniq: true, at different times, an
\* async action and a value that is no action
LineageParents ==
    {createAction("t", Undefined, Obj(<< <<"uniq", Bool(TRUE)>> >>), 0, 0).val,
     createAction("t", Undefined, Obj(<< <<"uniq", Bool(TRUE)>> >>), 1, 1).val,
     createAsyncAction("u", Str("p"), 0, 0).val,
     Set(validAction, "foo", Str("bar"))}

\* makeChildOf(p)(action), the caller keeping the result in place of the
\* action and noting, in place of the last note, the call that returned
AdoptedBy(p) ==
    LET out == makeChildOf(p, action, now)
    IN  /\ call' = [op |-> "makeChildOf", args |-> <<p>>, in |-> action, at |-> now,
                    out |-> out]
        /\ action' = IF out.thrown THEN action ELSE out.val
        /\ log' = IF out.thrown THEN log
                  ELSE <<[op |-> "makeChildOf", args |-> <<p>>, at |-> now]>>
        /\ UNCHANGED <<now, rnd, origin>>

NextLineage ==
    \/ Tick
    \/ \E v \in HandBuilt : Supply(v)
    \/ \E type \in Types, payload \in PlainPayloads, option \in Options :
          CreateAction(type, payload, option)
    \/ \E p \in LineageParents : AdoptedBy(p)
    \/ \E p \in LineageParents : IsChildOf(p)
    \/ \E payload \in PlainPayloads, progress \in ProgressArgs :
          ContinueWith(payload, progress)
    \/ \E payload \in PlainPayloads : SucceedWith(payload)
    \/ \E error \in Errors : FailWith(error)

SpecLineage == Init /\ [][NextLineage]_vars

(***************************************************************************)
(* Properties.                                                             *)
(***************************************************************************)
MetaOf(v, k) == Get(Get(v, "meta"), k)

LifecycleOps == {"continueWith", "succeedWith", "failWith"}

AsyncOnlyOps == {"isStarted", "isRunning", "isFinished"} \cup LifecycleOps

FactoryOps == {"createAction", "createAsyncAction", "createAsyncUniqueAction"}

\* equality of plain values: records are equal when they have the same keys
\* with equal values, in whatever order the keys are listed
RECURSIVE SameValue(_, _)
SameValue(p, q) ==
    IF p.t # q.t THEN FALSE
    ELSE IF p.t = "object"
    THEN /\ KeySet(p) = KeySet(q)
         /\ \A k \in KeySet(p) : SameValue(Get(p, k), Get(q, k))
    ELSE IF p.t = "array"
    THEN /\ Len(p.items) = Len(q.items)
         /\ \A i \in 1..Len(p.items) : SameValue(p.items[i], q.items[i])
    ELSE p = q

\* C1: a lifecycle transition returns an action with the meta.id and the
\* meta.ctime of the action passed, and after any sequence of calls the action
\* held still has the meta.id and meta.ctime it had when it was obtained.
C1_IdentityStable ==
    /\ (call.op \in LifecycleOps /\ ~call.out.thrown) =>
          /\ MetaOf(call.out.val, "id") = MetaOf(call.in, "id")
          /\ MetaOf(call.out.val, "ctime") = MetaOf(call.in, "ctime")
    /\ (origin.src # "none" /\ HasMeta(action)) =>
          /\ MetaOf(action, "id") = origin.id
          /\ MetaOf(action, "ctime") = origin.ctime

\* a second transition, applied after the clock has moved, to an action of
\* the factory that is already running
C1_Witness ==
    /\ call.op = "failWith"
    /\ ~call.out.thrown
    /\ origin.src = "factory"
    /\ MetaOf(call.in, "phase") = Str(PHASE_RUNNING)
    /\ MetaOf(action, "utime") # MetaOf(action, "ctime")

\* C2: isValidAction returns true exactly for a plain record that has the keys
\* type, error and meta and no key outside {type, payload, error, meta}, whose
\* type is a string and whose meta is a plain record that has the keys sign,
\* id, ctime, async and uniq, no key outside the nine meta keys, and the sign
\* 'redux-hyper-action'; for every other value it returns false.
C2_ValidIffConditions ==
    call.op = "isValidAction" =>
        LET v == call.in
            m == Get(v, "meta")
            accepted ==
                /\ v.t = "object"
                /\ {"type", "error", "meta"} \subseteq KeySet(v)
                /\ KeySet(v) \subseteq {"type", "payload", "error", "meta"}
                /\ Get(v, "type").t = "string"
                /\ m.t = "object"
                /\ {"sign", "id", "ctime", "async", "uniq"} \subseteq KeySet(m)
                /\ KeySet(m) \subseteq
                      {"sign", "id", "pid", "phase", "progress", "ctime", "utime",
                       "async", "uniq"}
                /\ Get(m, "sign") = Str("redux-hyper-action")
        IN  call.out = Ret(Bool(accepted))

\* an accepted record without the optional keys payload, pid and utime
C2_Witness ==
    /\ call.op = "isValidAction"
    /\ call.out = Ret(Bool(TRUE))
    /\ ~HasOwn(call.in, "payload")

\* C3: a value accepted by isValidAction has the keys phase and progress in
\* its meta if meta.async is true, and neither of them if meta.async is false.
C3_AsyncFieldsCoupled ==
    (call.op = "isValidAction" /\ call.out = Ret(Bool(TRUE))) =>
        LET m == Get(call.in, "meta")
        IN  IF Get(m, "async") = Bool(TRUE)
            THEN HasOwn(m, "phase") /\ HasOwn(m, "progress")
            ELSE ~HasOwn(m, "phase") /\ ~HasOwn(m, "progress")

\* C4: an async-only operation (isStarted, isRunning, isFinished, continueWith,
\* succeedWith, failWith) throws, and the caller gets no result, when the
\* action passed fails isValidAction or is a valid action whose meta.async is
\* false.
C4_AsyncOnlyThrows ==
    (/\ call.op \in AsyncOnlyOps
     /\ \/ ~isValidAction(call.in)
        \/ MetaOf(call.in, "async") = Bool(FALSE)) =>
        /\ call.out.thrown
        /\ action = call.in

\* a transition refused for a valid sync action
C4_Witness ==
    /\ call.op = "continueWith"
    /\ isValidAction(call.in)
    /\ MetaOf(call.in, "async") = Bool(FALSE)
    /\ call.out.thrown

\* C5: idOfAction, pidOfAction, isAsync and isUnique throw exactly when the
\* action fails isValidAction; makeChildOf and isChildOf throw exactly when the
\* parent or the child fails isValidAction.
C5_AccessorsThrowIffInvalid ==
    /\ call.op \in {"idOfAction", "pidOfAction", "isAsync", "isUnique"} =>
          (call.out.thrown <=> ~isValidAction(call.in))
    /\ call.op \in {"makeChildOf", "isChildOf"} =>
          (call.out.thrown <=>
              (~isValidAction(call.args[1]) \/ ~isValidAction(call.in)))

\* isChildOf refused for a valid child because the parent is no valid action
C5_Witness ==
    /\ call.op = "isChildOf"
    /\ isValidAction(call.in)
    /\ ~isValidAction(call.args[1])
    /\ call.out.thrown

\* C6: createAction(type, payload, option) returns an action with that type
\* and payload, the sign, meta.async and meta.uniq true exactly when the
\* option sets them, meta.ctime the time of the call, no value for meta.pid
\* and meta.utime, and phase 'started' and progress 0 when async, no phase and
\* no progress key when not.
C6_CreateActionShape ==
    call.op = "createAction" =>
        LET a == call.out.val
            m == Get(a, "meta")
            option == call.args[3]
            async == option.t = "object" /\ Get(option, "async") = Bool(TRUE)
            uniq == option.t = "object" /\ Get(option, "uniq") = Bool(TRUE)
        IN  /\ Get(a, "type") = call.args[1]
            /\ Get(a, "payload") = call.args[2]
            /\ Get(m, "sign") = Str("redux-hyper-action")
            /\ Get(m, "async") = Bool(async)
            /\ Get(m, "uniq") = Bool(uniq)
            /\ Get(m, "ctime") = Str(toISOString(call.at))
            /\ Get(m, "pid") = Undefined
            /\ Get(m, "utime") = Undefined
            /\ async => (Get(m, "phase") = Str("started") /\ Get(m, "progress") = Num(0))
            /\ ~async => (~HasOwn(m, "phase") /\ ~HasOwn(m, "progress"))

\* a sync action created with uniq: true after the clock has moved
C6_Witness ==
    /\ call.op = "createAction"
    /\ call.args[3] = Obj(<< <<"uniq", Bool(TRUE)>> >>)
    /\ call.at > 0
    /\ MetaOf(call.out.val, "uniq") = Bool(TRUE)

\* C7: the error flag of an action returned by createAction,
\* createAsyncAction or createAsyncUniqueAction is false, whatever the payload.
C7_CreatedErrorFalse ==
    call.op \in FactoryOps => Get(call.out.val, "error") = Bool(FALSE)

\* the option of a logged createAction call sets uniq
LoggedUniq(e) == e.args[3].t = "object" /\ Get(e.args[3], "uniq") = Bool(TRUE)

\* the identifier a logged call produced
LoggedId(e) == IF e.op = "createActionId" THEN e.out ELSE MetaOf(e.out, "id")

\* the logged call derives its identifier with uniq false
LoggedNonUnique(e) ==
    IF e.op = "createActionId" THEN e.args[3] = Bool(FALSE) ELSE ~LoggedUniq(e)

\* C8: two createAction calls with the same type, the same payload and
\* uniq: true return actions with different meta.id, async or not.
C8_UniqIdsDiffer ==
    \A i, j \in 1..Len(log) :
        (/\ i < j
         /\ log[i].op = "createAction" /\ log[j].op = "createAction"
         /\ LoggedUniq(log[i]) /\ LoggedUniq(log[j])
         /\ log[i].args[1] = log[j].args[1]
         /\ log[i].args[2] = log[j].args[2]) =>
            LoggedId(log[i]) # LoggedId(log[j])

\* C9: two calls that derive an identifier with uniq false from the same type
\* and from payloads that are equal up to the order of their keys get the same
\* identifier, whether the calls are of createActionId or of createAction,
\* sync or async.
C9_NonUniqueDeterministic ==
    \A i, j \in 1..Len(log) :
        (/\ LoggedNonUnique(log[i]) /\ LoggedNonUnique(log[j])
         /\ log[i].args[1] = log[j].args[1]
         /\ SameValue(log[i].args[2], log[j].args[2])) =>
            LoggedId(log[i]) = LoggedId(log[j])

\* two calls whose payloads are the same record with the keys listed in a
\* different order
C9_Witness ==
    /\ Len(log) = 2
    /\ LoggedNonUnique(log[1]) /\ LoggedNonUnique(log[2])
    /\ log[1].args[1] = log[2].args[1]
    /\ log[1].args[2] = Obj(<< <<"a", Num(1)>>, <<"b", Num(2)>> >>)
    /\ log[2].args[2] = Obj(<< <<"b", Num(2)>>, <<"a", Num(1)>> >>)

\* C10: two createActionId calls with uniq false whose (type, payload) pairs
\* are distinct get different identifiers.
C10_DistinctPairsDistinctIds ==
    \A i, j \in 1..Len(log) :
        (/\ log[i].op = "createActionId" /\ log[j].op = "createActionId"
         /\ LoggedNonUnique(log[i]) /\ LoggedNonUnique(log[j])
         /\ \/ log[i].args[1] # log[j].args[1]
            \/ ~SameValue(log[i].args[2], log[j].args[2])) =>
            LoggedId(log[i]) # LoggedId(log[j])

\* the answers of isStarted, isRunning and isFinished for a
PhaseAnswers(a) == <<isStarted(a), isRunning(a), isFinished(a)>>

Yes == Ret(Bool(TRUE))
No == Ret(Bool(FALSE))

\* C11: an async action returned by a factory is started and neither running
\* nor finished; the result of continueWith(p, n) has phase 'running' and
\* progress n and is running only; the result of succeedWith or failWith has
\* phase 'finish' and progress 100 and is finished only.
C11_LifecyclePhases ==
    /\ (call.op \in FactoryOps /\ MetaOf(call.out.val, "async") = Bool(TRUE)) =>
          PhaseAnswers(call.out.val) = <<Yes, No, No>>
    /\ (call.op = "continueWith" /\ ~call.out.thrown) =>
          /\ MetaOf(call.out.val, "phase") = Str("running")
          /\ MetaOf(call.out.val, "progress") =
                (IF call.args[2] = Undefined THEN Num(0) ELSE call.args[2])
          /\ PhaseAnswers(call.out.val) = <<No, Yes, No>>
    /\ (call.op \in {"succeedWith", "failWith"} /\ ~call.out.thrown) =>
          /\ MetaOf(call.out.val, "phase") = Str("finish")
          /\ MetaOf(call.out.val, "progress") = Num(100)
          /\ PhaseAnswers(call.out.val) = <<No, No, Yes>>

\* a started action of the factory that succeedWith has finished
C11_Witness ==
    /\ call.op = "succeedWith"
    /\ ~call.out.thrown
    /\ origin.src = "factory"
    /\ isStarted(call.in) = Yes
    /\ isFinished(action) = Yes

\* C12: whatever the error flag and the phase of the action passed,
\* continueWith(p, n) and succeedWith(p) return an action with error false and
\* payload p, and failWith(e) returns an action with error true and payload e.
C12_ErrorFlagAfterTransition ==
    /\ (call.op \in {"continueWith", "succeedWith"} /\ ~call.out.thrown) =>
          /\ Get(call.out.val, "error") = Bool(FALSE)
          /\ Get(call.out.val, "payload") = call.args[1]
    /\ (call.op = "failWith" /\ ~call.out.thrown) =>
          /\ Get(call.out.val, "error") = Bool(TRUE)
          /\ Get(call.out.val, "payload") = call.args[1]

\* a without the two meta keys makeChildOf writes
WithoutLineage(a) == OmitMeta(OmitMeta(a, "pid"), "utime")

\* C13: makeChildOf(parent)(child) returns the child with meta.pid set to the
\* parent's meta.id and meta.utime set to the time of the call and every other
\* field as it was, so idOfAction of the result is idOfAction(child) and
\* pidOfAction of the result is idOfAction(parent).
C13_MakeChildOfFrame ==
    (call.op = "makeChildOf" /\ ~call.out.thrown) =>
        LET parent == call.args[1]
            child == call.in
            made == call.out.val
        IN  /\ SameValue(WithoutLineage(made), WithoutLineage(child))
            /\ \A k \in {"type", "payload", "error"} : Get(made, k) = Get(child, k)
            /\ \A k \in {"id", "sign", "ctime", "async", "uniq", "phase", "progress"} :
                  MetaOf(made, k) = MetaOf(child, k)
            /\ MetaOf(made, "pid") = MetaOf(parent, "id")
            /\ MetaOf(made, "utime") = Str(toISOString(call.at))
            /\ idOfAction(made) = idOfAction(child)
            /\ pidOfAction(made) = idOfAction(parent)

\* a running action of the factory made the child of another action after the
\* clock has moved
C13_Witness ==
    /\ call.op = "makeChildOf"
    /\ ~call.out.thrown
    /\ origin.src = "factory"
    /\ call.at > 0
    /\ MetaOf(call.in, "phase") = Str(PHASE_RUNNING)
    /\ MetaOf(call.args[1], "id") # MetaOf(call.in, "id")
    /\ pidOfAction(action) = idOfAction(call.args[1])

\* the parent of the last makeChildOf call that returned, if any
LastParent == IF log = <<>> THEN Undefined ELSE log[Len(log)].args[1]

\* C14: isChildOf(parent)(child) answers true exactly when child.meta.pid
\* equals parent.meta.id; it answers true for the result of
\* makeChildOf(parent), and still does after any lifecycle transitions of
\* that result.
C14_IsChildOfIffPid ==
    /\ (call.op = "isChildOf" /\ ~call.out.thrown) =>
          call.out.val = Bool(MetaOf(call.in, "pid") = MetaOf(call.args[1], "id"))
    /\ (call.op = "makeChildOf" /\ ~call.out.thrown) =>
          isChildOf(call.args[1], call.out.val) = Yes
    /\ log # <<>> => isChildOf(LastParent, action) = Yes

\* isChildOf answers true for an action that was made a child and then
\* continued and finished at a later time
C14_Witness ==
    /\ log # <<>>
    /\ call.op = "isChildOf"
    /\ call.args[1] = LastParent
    /\ call.out = Yes
    /\ MetaOf(action, "phase") = Str(PHASE_FINISH)
    /\ MetaOf(action, "utime") # Str(toISOString(log[Len(log)].at))

\* C15: isChildOf(parent)(a) answers false for a valid action a that is not
\* the result of makeChildOf(parent), lifecycle transitions apart: a has no
\* pid, or was last made the child of another parent action.
C15_UnrelatedIsNotChild ==
    (call.op = "isChildOf" /\ ~call.out.thrown /\ call.args[1] # LastParent) =>
        call.out = No

\* the action held is an async action that a factory returned, as it is after
\* the transitions applied to it since
AsyncOfFactory ==
    /\ origin.src = "factory"
    /\ MetaOf(action, "async") = Bool(TRUE)

\* C16: meta.progress of an async action of the factory, after any sequence
\* of continueWith, succeedWith and failWith with any progress argument, is an
\* integer from 0 to 100.
C16_ProgressInRange ==
    AsyncOfFactory =>
        LET progress == MetaOf(action, "progress")
        IN  progress.t = "number" /\ progress.n \in 0..100

\* the place of a phase in the order started < running < finish
PhaseRank(phase) ==
    IF phase = Str(PHASE_STARTED) THEN 1
    ELSE IF phase = Str(PHASE_RUNNING) THEN 2
    ELSE IF phase = Str(PHASE_FINISH) THEN 3
    ELSE 0

\* C17: continueWith, succeedWith and failWith never return an action whose
\* phase comes before the phase of the action passed in the order started <
\* running < finish; in particular every transition of a finished action
\* returns a finished action.
C17_PhaseMonotonic ==
    (call.op \in LifecycleOps /\ ~call.out.thrown
        /\ PhaseRank(MetaOf(call.in, "phase")) > 0) =>
        PhaseRank(MetaOf(call.out.val, "phase")) >= PhaseRank(MetaOf(call.in, "phase"))

\* the time an ISO string written by the library stands for
Instant(v) == CHOOSE n \in 0..MaxTime : Str(toISOString(n)) = v

\* C18: an action returned by a factory has no utime value; continueWith,
\* succeedWith, failWith and makeChildOf set meta.utime of their result to the
\* time of the call, so the utime of an action of the factory is never
\* earlier than its ctime and never earlier than the utime it had before the
\* call.
C18_TimestampSemantics ==
    /\ call.op \in FactoryOps => MetaOf(call.out.val, "utime") = Undefined
    /\ (call.op \in LifecycleOps \cup {"makeChildOf"} /\ ~call.out.thrown) =>
          /\ MetaOf(call.out.val, "utime") = Str(toISOString(call.at))
          /\ (origin.src = "factory" /\ MetaOf(call.in, "utime") # Undefined) =>
                Instant(MetaOf(call.out.val, "utime")) >=
                    Instant(MetaOf(call.in, "utime"))
    /\ (origin.src = "factory" /\ MetaOf(action, "utime") # Undefined) =>
          Instant(MetaOf(action, "utime")) >= Instant(MetaOf(action, "ctime"))

\* an action of the factory, updated once already, is updated again at a
\* later time
C18_Witness ==
    /\ call.op \in LifecycleOps \cup {"makeChildOf"}
    /\ ~call.out.thrown
    /\ origin.src = "factory"
    /\ MetaOf(call.in, "utime") # Undefined
    /\ Instant(MetaOf(action, "utime")) > Instant(MetaOf(call.in, "utime"))

\* C19: every action a factory returns satisfies isValidAction, and so does
\* every action continueWith, succeedWith, failWith and makeChildOf return for
\* it afterwards; a transition of a valid action adds no key outside the
\* allowed sets and leaves meta.sign as it is.
C19_ValidityClosed ==
    /\ call.op \in FactoryOps => isValidAction(call.out.val)
    /\ origin.src = "factory" => isValidAction(action)
    /\ (call.op \in LifecycleOps \cup {"makeChildOf"} /\ ~call.out.thrown) =>
          /\ isValidAction(call.out.val)
          /\ KeySet(call.out.val) \subseteq {"type", "payload", "error", "meta"}
          /\ KeySet(Get(call.out.val, "meta")) \subseteq
                {"sign", "id", "pid", "phase", "progress", "ctime", "utime", "async",
                 "uniq"}
          /\ MetaOf(call.out.val, "sign") = MetaOf(call.in, "sign")

\* an action of the factory that was made a child and then failed
C19_Witness ==
    /\ origin.src = "factory"
    /\ call.op = "failWith"
    /\ ~call.out.thrown
    /\ MetaOf(action, "pid") # Undefined
    /\ isValidAction(action)

\* C20: in an async action of the factory, after any sequence of
\* continueWith, succeedWith, failWith and makeChildOf, phase 'started' comes
\* with progress 0 and phase 'finish' with progress 100.
C20_PhaseProgressCoupled ==
    AsyncOfFactory =>
        /\ MetaOf(action, "phase") = Str("started") => MetaOf(action, "progress") = Num(0)
        /\ MetaOf(action, "phase") = Str("finish") => MetaOf(action, "progress") = Num(100)

\* a finished action of the factory that was then made a child
C20_Witness ==
    /\ AsyncOfFactory
    /\ call.op = "makeChildOf"
    /\ ~call.out.thrown
    /\ MetaOf(action, "phase") = Str(PHASE_FINISH)
    /\ MetaOf(action, "progress") = Num(100)

\* a without the keys a lifecycle transition writes
WithoutLifecycle(a) ==
    Omit(Omit(OmitMeta(OmitMeta(OmitMeta(a, "phase"), "progress"), "utime"),
              "payload"), "error")

\* C21: continueWith, succeedWith and failWith change only payload, error,
\* meta.phase, meta.progress and meta.utime: type, meta.sign, meta.pid,
\* meta.async and meta.uniq of the result are those of the action passed, so
\* the pid written by makeChildOf(parent) is still the parent's id after any
\* later transitions, and the result is async as the action passed was.
C21_LifecycleFrame ==
    /\ (call.op \in LifecycleOps /\ ~call.out.thrown) =>
          /\ SameValue(WithoutLifecycle(call.out.val), WithoutLifecycle(call.in))
          /\ Get(call.out.val, "type") = Get(call.in, "type")
          /\ \A k \in {"sign", "pid", "async", "uniq"} :
                MetaOf(call.out.val, k) = MetaOf(call.in, k)
          /\ MetaOf(call.out.val, "async") = Bool(TRUE)
    /\ log # <<>> => MetaOf(action, "pid") = MetaOf(LastParent, "id")

\* a child that had finished is continued at a time after it was made a child
C21_Witness ==
    /\ log # <<>>
    /\ call.op = "continueWith"
    /\ ~call.out.thrown
    /\ call.at > log[Len(log)].at
    /\ MetaOf(call.in, "phase") = Str(PHASE_FINISH)
    /\ MetaOf(action, "pid") = MetaOf(LastParent, "id")

====
